---- MODULE Spec2Model ----
(***************************************************************************)
(* A model of fastest-server: lib/AndroidCommandLineTools.js (the adb      *)
(* facade) and the Server class that brings a session up, resets the app   *)
(* and proxies every other request to the automation server on the device. *)
(*                                                                         *)
(* Every asynchronous call of the code (an adb command, a timer, an HTTP   *)
(* request) is one outstanding operation.  An action of the model is the   *)
(* completion of one such operation together with the promise callbacks    *)
(* that run because of it, up to and including the next call they issue:   *)
(* node runs those callbacks as microtasks of the same turn, so nothing    *)
(* else interleaves with them.                                             *)
(***************************************************************************)
EXTENDS Integers, Sequences, FiniteSets, TLC

(***************************************************************************)
(* Bounds of the model.                                                    *)
(***************************************************************************)
\* Number of request slots (requests the server can hold at one time).
NumSlots == 2
\* Longest list of requested permissions a package reports.
MaxPerms == 2

\* Requests the server handles at the same time, when requests overlap.
MaxOverlap == 2
\* Failed probes in a row a poll meets, when requests overlap.
MaxRetries == 1

Slots == 1..NumSlots

(***************************************************************************)
(* Program constants.                                                      *)
(***************************************************************************)
\* Server.constructor defaults, as the arguments of `adb forward`.
localAppServerPort == "tcp:6100"
appServerPort == "tcp:7100"
\* The two control endpoints under rootPath ('/wd/hub'), and other paths.
SessionPath == "/wd/hub/session"
ResetPath == "/wd/hub/session/session-id/appium/app/reset"
ElementsPath == "/wd/hub/session/session-id/elements"
StatusPath == "/wd/hub/status"
\* startDevice: `if (attempt < 60)`.
BootPollLimit == 60
\* waitForAppServerStart: `if (count < 50)`.
PingPollLimit == 50

\* JavaScript's null and undefined, and a missing (falsy) string.
Null == [js |-> "null"]
Undefined == [js |-> "undefined"]
Missing == ""

(***************************************************************************)
(* Strings the code compares are sequences of UTF-16 code units.           *)
(***************************************************************************)
V51 == <<53, 46, 49>>          \* "5.1"
V60 == <<54, 46, 48>>          \* "6.0"
V90 == <<57, 46, 48>>          \* "9.0"
V100 == <<49, 48, 46, 48>>     \* "10.0"
\* caps.platformVersion when the capability is absent.
VUndefined == <<-1>>

\* a < b for two JavaScript strings: code unit by code unit, a proper prefix
\* sorting first.
RECURSIVE JsStringLess(_, _)
JsStringLess(a, b) ==
  IF b = <<>> THEN FALSE
  ELSE IF a = <<>> THEN TRUE
  ELSE IF Head(a) < Head(b) THEN TRUE
  ELSE IF Head(a) > Head(b) THEN FALSE
  ELSE JsStringLess(Tail(a), Tail(b))

\* NeedsGrant comparing versions as numbers do: a two-digit major is newer.
NeedsGrantNumeric(v) == v # VUndefined /\ (Len(v) > Len(V60) \/ ~JsStringLess(v, V60))

\* `caps.platformVersion >= '6.0'`; undefined converts to NaN and compares false.
NeedsGrant(v) == v # VUndefined /\ ~JsStringLess(v, V60)

(***************************************************************************)
(* Permissions.                                                            *)
(***************************************************************************)
CAMERA == "android.permission.CAMERA"
READ_CONTACTS == "android.permission.READ_CONTACTS"
INTERNET == "android.permission.INTERNET"

\* The permissions a package may report: two dangerous ones and one that is not.
Permissions == {CAMERA, READ_CONTACTS, INTERNET}

\* The members of the DANGEROUS_PERMISSIONS list that packages here report.
DANGEROUS_PERMISSIONS == {CAMERA, READ_CONTACTS}

\* Array.prototype.filter.
RECURSIVE Filter(_, _)
Filter(s, keep) ==
  IF s = <<>> THEN <<>>
  ELSE IF Head(s) \in keep THEN <<Head(s)>> \o Filter(Tail(s), keep)
  ELSE Filter(Tail(s), keep)

\* Dangerous with the filter left out.
DangerousUnfiltered(permissions) == permissions

\* grantPermissions: `permissions.filter(p => DANGEROUS_PERMISSIONS.includes(p))`.
Dangerous(permissions) == Filter(permissions, DANGEROUS_PERMISSIONS)

Range(s) == {s[i] : i \in 1..Len(s)}

\* Every result packageInfo can parse: {requestedPermissions: [...]}.
PermissionLists == UNION {[1..n -> Permissions] : n \in 0..MaxPerms}


(***************************************************************************)
(* Requests and capabilities.                                              *)
(***************************************************************************)
DeviceNames == {"emulator-5554", "emulator-5556"}
Versions == {V51, V60, V90, V100, VUndefined}

\* desiredCapabilities of two different clients, and one that names no device.
CapsSet ==
  {[deviceName |-> "emulator-5554", avdName |-> "super-duper-avd",
    packageName |-> "fi.foo.bar", app |-> "/path/to/app.apk",
    platformVersion |-> v] : v \in Versions}
  \cup
  {[deviceName |-> "emulator-5556", avdName |-> "other-avd",
    packageName |-> "fi.foo.baz", app |-> "/path/to/other.apk",
    platformVersion |-> v] : v \in {V60, V100}}
  \cup
  {[deviceName |-> Missing, avdName |-> "super-duper-avd",
    packageName |-> "fi.foo.bar", app |-> "/path/to/app.apk",
    platformVersion |-> V60]}

EmptyBody == [js |-> "{}"]

\* The requests a client sends: start-session (with and without capabilities),
\* reset-app, and traffic for the automation server.
SessionRequests ==
  {[method |-> "POST", path |-> SessionPath, body |-> [desiredCapabilities |-> c]] :
     c \in CapsSet}
  \cup {[method |-> "POST", path |-> SessionPath, body |-> EmptyBody]}
ResetRequests == {[method |-> "POST", path |-> ResetPath, body |-> EmptyBody]}
OtherRequests ==
  {[method |-> "POST", path |-> ElementsPath, body |-> [using |-> "xpath"]],
   [method |-> "GET", path |-> StatusPath, body |-> EmptyBody],
   [method |-> "GET", path |-> SessionPath, body |-> EmptyBody]}
Requests == SessionRequests \cup ResetRequests \cup OtherRequests

NoRequest == [js |-> "none"]
NoResponse == [js |-> "none"]

\* createExpress: the first handler whose method and path match the request.
Route(q) ==
  IF q.method = "POST" /\ q.path = SessionPath THEN "createSession"
  ELSE IF q.method = "POST" /\ q.path = ResetPath THEN "resetApp"
  ELSE "forwardRequestToAppServer"

\* `x.deviceName` throws a TypeError unless x is an object.
IsObject(x) == "deviceName" \in DOMAIN x

\* `req.body.desiredCapabilities`.
DesiredCapabilities(q) ==
  IF "desiredCapabilities" \in DOMAIN q.body THEN q.body.desiredCapabilities
  ELSE Undefined

(***************************************************************************)
(* Results of the outside world.                                           *)
(***************************************************************************)
\* exec: resolved, or rejected (a failed command, or output starting "error").
ExecResults == {"ok", "Command failed"}
\* `adb devices`: rejected, or the parsed list of running devices.
DevicesResults == {[rejected |-> TRUE, devices |-> {}]}
  \cup {[rejected |-> FALSE, devices |-> d] : d \in SUBSET DeviceNames}
\* `pm list packages`: rejected, an empty list, or some packages.
ListPackagesResults == {"Command failed", "empty", "packages"}
\* GET /ping: a 2xx answer, or a rejection (no connection, or an error status).
PingResults == {"ok", "ECONNREFUSED", "Service Unavailable"}
\* A forwarded request: an answer, an error answer (err.res), or no answer.
AppServerResults ==
  {[kind |-> "response", status |-> 200, body |-> [sessionId |-> "session-id"]],
   [kind |-> "errorResponse", status |-> 404, body |-> [sessionId |-> "unknown"]],
   [kind |-> "transport", status |-> 0, body |-> [sessionId |-> "ECONNRESET"]]}
\* No forwarded request of the slot has completed.
NoAnswer == [kind |-> "none", status |-> 0, body |-> EmptyBody]

\* The message of startDevice's `new Error()`.
NotReady == ""
TypeError == "TypeError: Cannot read property of null or undefined"
MissingDeviceName == "missing deviceName"

(***************************************************************************)
(* State.                                                                  *)
(***************************************************************************)
VARIABLES
  thisCaps,       \* Server.caps
  thisAppInfo,    \* Server.appInfo
  slot,           \* per request slot: the handler's position and locals,
                  \* and what the request has done to the outside so far
  recentAppInfo,  \* history: the app info the most recent bring-up has
                  \* read from the device, Null while it has read none
  failedBringUp   \* history: a bring-up has ended without its request
                  \* having gone to the proxy

vars == <<thisCaps, thisAppInfo, slot, recentAppInfo, failedBringUp>>

\* A slot no request occupies.
\*   pc                 the asynchronous call the handler waits for
\*   req                the request (method, path, body)
\*   caps               the handler's `caps`
\*   appInfo            resetApp's `appInfo`, createSession's `info`
\*   attempt, count     the poll counters of startDevice / waitForAppServerStart
\*   pending            the grant commands of Promise.all still outstanding
\*   response           the response sent to the client
\* and, as a record of what the request did (what the tests' mocks record):
\*   adbCalls           the adb commands issued, in order; the repeated query
\*                      of one boot poll is listed once, attempt counts them
\*   spawnCalls         the emulator processes spawned
\*   appServerRequests  the requests sent to the automation server, in order
\*   deviceRunning      whether `adb devices` listed the target device
\*   probe              the outcome of the latest poll probe; a failure is
\*                      kept only when it ends the poll
\*   failure            the rejection of the step that failed, if one did
\*   result             the outcome of the adb command that completed last
\*   answer             what came of the forwarded request, once it completed
IdleSlot ==
  [pc |-> "idle", req |-> NoRequest, caps |-> Undefined, appInfo |-> Undefined,
   attempt |-> 0, count |-> 0, pending |-> {}, response |-> NoResponse,
   adbCalls |-> <<>>, spawnCalls |-> <<>>, appServerRequests |-> <<>>,
   deviceRunning |-> "unknown", probe |-> "none", failure |-> "none",
   result |-> "none", answer |-> NoAnswer]

Init ==
  /\ thisCaps = Null
  /\ thisAppInfo = Null
  /\ slot = [r \in Slots |-> IdleSlot]
  /\ recentAppInfo = Null
  /\ failedBringUp = FALSE

(***************************************************************************)
(* The handlers, as functions from a slot to the slot after the call.      *)
(***************************************************************************)
\* One adb command line: `${adbPath} -s ${deviceName} ${cmd}`.
Adb(s, cmd, args) == [deviceName |-> s.caps.deviceName, cmd |-> cmd, args |-> args]

PingRequest == [method |-> "GET", path |-> "/ping", body |-> EmptyBody]

\* HandleError that, having answered, passes the request on as well.
HandleErrorAndNext(s, err) ==
  [s EXCEPT !.pc = "forwardRequestToAppServer",
            !.response = [status |-> 500, body |-> [error |-> err, stack |-> err]],
            !.appServerRequests = Append(@, s.req)]

\* handleError, reached through next(err) or through express catching an
\* exception the handler throws: a 500 response with the message and the stack.
\* Its `!err` branch is never taken: every rejection and exception here is an
\* Error object.
HandleError(s, err) ==
  [s EXCEPT !.pc = "done",
            !.response = [status |-> 500, body |-> [error |-> err, stack |-> err]]]

\* ForwardRequestToAppServer without `.send(req.body)`.
ForwardRequestToAppServerNoBody(s) ==
  [s EXCEPT !.pc = "forwardRequestToAppServer",
            !.appServerRequests = Append(@, [s.req EXCEPT !.body = EmptyBody])]

\* forwardRequestToAppServer: the request goes to the automation server as it is.
ForwardRequestToAppServer(s) ==
  [s EXCEPT !.pc = "forwardRequestToAppServer",
            !.appServerRequests = Append(@, s.req)]

\* Relay that treats an error answer as a failure of its own.
RelayOnlySuccess(s, res) ==
  IF res.kind # "response" THEN HandleError(s, res.body.sessionId)
  ELSE [s EXCEPT !.pc = "done",
                 !.response = [status |-> res.status, body |-> res.body]]

\* forwardRequestToAppServer, once the request has completed: an answer is
\* relayed with its status and body, an error answer (err.res) too; an error
\* without an answer goes to next(err).
Relay(s, res) ==
  IF res.kind = "transport" THEN HandleError(s, res.body.sessionId)
  ELSE [s EXCEPT !.pc = "done",
                 !.response = [status |-> res.status, body |-> res.body]]

\* Catch with the error dropped: next() instead of next(err).
CatchCallsNext(s, err) == ForwardRequestToAppServer(s)

\* `.catch(err => { next(err); })` at the end of both chains.
Catch(s, err) == HandleError(s, err)

\* History: the step the handler waited for has failed with err.
Rejected(s, err) == [s EXCEPT !.failure = err]

\* History: the adb command the handler waited for has completed with res.
Completed(s, res) == [s EXCEPT !.result = res]

\* History: the poll tries again, and its failed probe is of no further account.
Retried(s) == [s EXCEPT !.probe = "none"]

\* execAdb: throws without a device name, otherwise runs the command; the
\* handler then waits at `at`.  A throw inside a promise callback rejects the
\* chain, so it too ends in next(err).
ExecAdb(s, cmd, args, at) ==
  IF s.caps.deviceName = Missing THEN HandleError(s, MissingDeviceName)
  ELSE [s EXCEPT !.pc = at, !.adbCalls = Append(@, Adb(s, cmd, args))]

\* WaitForAppServerStart without the probe.
WaitForAppServerStartSkipped(s, count) == ForwardRequestToAppServer(s)

\* waitForAppServerStart(count): starts with delay(200).
WaitForAppServerStart(s, count) == [s EXCEPT !.pc = "delay", !.count = count]

\* AfterPing that keeps polling after a probe has succeeded.
AfterPingIgnoresSuccess(s, res) ==
  IF s.count < PingPollLimit THEN WaitForAppServerStart(s, s.count + 1)
  ELSE IF res = "ok" THEN ForwardRequestToAppServer(s)
  ELSE Catch(Rejected(s, res), res)

\* waitForAppServerStart, after the probe: a rejection is retried while
\* count < 50; success resolves, and the chain calls next(), which takes the
\* request to the proxy.
AfterPing(s, res) ==
  IF res = "ok" THEN ForwardRequestToAppServer(s)
  ELSE IF s.count < PingPollLimit THEN WaitForAppServerStart(Retried(s), s.count + 1)
  ELSE Catch(Rejected(s, res), res)

TcpPortForward(s) ==
  ExecAdb(s, "forward", <<localAppServerPort, appServerPort>>, "tcpPortForward")

StartApp(s) ==
  ExecAdb(s, "shell monkey -p",
          <<s.caps.packageName, "-c android.intent.category.LAUNCHER 1">>, "startApp")

\* grantPermissions: one command per dangerous permission, all issued at once;
\* Promise.all of no command is resolved, and the chain goes on to startApp.
GrantPermissions(s, permissions) ==
  LET dangerous == Dangerous(permissions)
      grants == [i \in 1..Len(dangerous) |->
                   Adb(s, "shell pm grant", <<s.caps.packageName, dangerous[i]>>)]
  IN IF dangerous = <<>> THEN StartApp(s)
     ELSE IF s.caps.deviceName = Missing THEN HandleError(s, MissingDeviceName)
     ELSE [s EXCEPT !.pc = "grantPermissions",
                    !.adbCalls = @ \o grants,
                    !.pending = 1..Len(dangerous)]

\* `if (caps.platformVersion >= '6.0') return cmd.grantPermissions(...)`, then
\* startApp.  Reading requestedPermissions of a null appInfo throws.
GrantStep(s) ==
  IF NeedsGrant(s.caps.platformVersion)
  THEN IF "requestedPermissions" \notin DOMAIN s.appInfo THEN HandleError(s, TypeError)
       ELSE GrantPermissions(s, s.appInfo.requestedPermissions)
  ELSE StartApp(s)

PackageInfo(s) ==
  ExecAdb(s, "shell dumpsys package", <<s.caps.packageName>>, "packageInfo")

\* InstallApp without the uninstall.
InstallAppWithoutUninstall(s) == ExecAdb(s, "install", <<s.caps.app>>, "install")

\* installApp: uninstall first.
InstallApp(s) == ExecAdb(s, "uninstall", <<s.caps.packageName>>, "uninstall")

\* WaitUntilRunning that does not count its attempts.
WaitUntilRunningUncounted(s, attempt) ==
  IF attempt = 0
  THEN ExecAdb([s EXCEPT !.attempt = 0], "shell pm list packages", <<>>, "listPackages")
  ELSE [s EXCEPT !.pc = "listPackages"]

\* waitUntilRunning(attempt): one package-list query.
WaitUntilRunning(s, attempt) ==
  LET q == [s EXCEPT !.attempt = attempt]
  IN IF attempt = 0 THEN ExecAdb(q, "shell pm list packages", <<>>, "listPackages")
     ELSE [q EXCEPT !.pc = "listPackages"]

\* StartDevice that starts a second emulator.
StartDeviceTwice(s) ==
  WaitUntilRunning([s EXCEPT !.spawnCalls = @ \o << <<"-avd", s.caps.avdName>>,
                                                    <<"-avd", s.caps.avdName>> >>], 0)

\* startDevice: spawn the emulator with `-avd avdName`, then poll.
StartDevice(s) ==
  WaitUntilRunning([s EXCEPT !.spawnCalls = Append(@, <<"-avd", s.caps.avdName>>)], 0)

\* EnsureDevice that starts the device whatever is running.
EnsureDeviceAlwaysStarts(s, runningDevices) == StartDevice(s)

\* `if (!runningDevices.includes(caps.deviceName)) return cmd.startDevice()`,
\* then installApp.
EnsureDevice(s, runningDevices) ==
  IF s.caps.deviceName \notin runningDevices THEN StartDevice(s) ELSE InstallApp(s)

ClearApp(s) == ExecAdb(s, "shell pm clear", <<s.caps.packageName>>, "clearApp")

ListRunningDevices(s) == ExecAdb(s, "devices", <<>>, "listRunningDevices")

(***************************************************************************)
(* Actions: a request arriving, and each outstanding call completing.      *)
(***************************************************************************)
Waiting(r, at) == slot[r].pc = at

\* POST /wd/hub/session.  createSession stores the capabilities, builds the
\* facade (reading caps.deviceName) and asks for the running devices.
CreateSession(r, q) ==
  /\ Waiting(r, "idle")
  /\ Route(q) = "createSession"
  /\ LET caps == DesiredCapabilities(q)
         s == [IdleSlot EXCEPT !.req = q, !.caps = caps]
     IN /\ thisCaps' = caps
        /\ slot' = [slot EXCEPT ![r] =
                      IF ~IsObject(caps) THEN HandleError(s, TypeError)
                      ELSE ListRunningDevices(s)]
  /\ recentAppInfo' = Null
  /\ UNCHANGED <<thisAppInfo, failedBringUp>>

\* `adb devices` completed.
ListRunningDevicesDone(r, res) ==
  /\ Waiting(r, "listRunningDevices")
  /\ LET s == slot[r]
         running == IF s.caps.deviceName \in res.devices THEN "yes" ELSE "no"
     IN slot' = [slot EXCEPT ![r] =
                   IF res.rejected THEN Catch(Rejected(s, "Command failed"), "Command failed")
                   ELSE EnsureDevice([s EXCEPT !.deviceRunning = running], res.devices)]
  /\ UNCHANGED <<thisCaps, thisAppInfo, recentAppInfo, failedBringUp>>

\* `pm list packages` of the boot poll completed.  An empty list throws
\* `new Error()`; a failure is retried after a second while attempt < 60.
ListPackagesDone(r, res) ==
  /\ Waiting(r, "listPackages")
  /\ LET s == [slot[r] EXCEPT !.probe = res]
         err == IF res = "empty" THEN NotReady ELSE res
     IN slot' = [slot EXCEPT ![r] =
                   IF res = "packages" THEN InstallApp([s EXCEPT !.attempt = 0])
                   ELSE IF s.attempt < BootPollLimit
                     THEN [Retried(s) EXCEPT !.pc = "setTimeout"]
                   ELSE Catch(Rejected(s, err), err)]
  /\ UNCHANGED <<thisCaps, thisAppInfo, recentAppInfo, failedBringUp>>

\* The second between two boot-poll queries has passed.
SetTimeoutDone(r) ==
  /\ Waiting(r, "setTimeout")
  /\ slot' = [slot EXCEPT ![r] = WaitUntilRunning(slot[r], slot[r].attempt + 1)]
  /\ UNCHANGED <<thisCaps, thisAppInfo, recentAppInfo, failedBringUp>>

\* UninstallDone without the `.catch` that ignores the failure.
UninstallDoneRejects(r, res) ==
  /\ Waiting(r, "uninstall")
  /\ LET s == Completed(slot[r], res)
     IN slot' = [slot EXCEPT ![r] =
                   IF res # "ok" THEN Catch(Rejected(s, res), res)
                   ELSE ExecAdb(s, "install", <<s.caps.app>>, "install")]
  /\ UNCHANGED <<thisCaps, thisAppInfo, recentAppInfo, failedBringUp>>

\* `adb uninstall` completed: its failure is ignored.
UninstallDone(r, res) ==
  /\ Waiting(r, "uninstall")
  /\ LET s == Completed(slot[r], res)
     IN slot' = [slot EXCEPT ![r] = ExecAdb(s, "install", <<s.caps.app>>, "install")]
  /\ UNCHANGED <<thisCaps, thisAppInfo, recentAppInfo, failedBringUp>>

\* InstallDone that reads the package only when the server has no app info.
InstallDoneReusesInfo(r, res) ==
  /\ Waiting(r, "install")
  /\ LET s == Completed(slot[r], res)
     IN slot' = [slot EXCEPT ![r] =
                   IF res # "ok" THEN Catch(Rejected(s, res), res)
                   ELSE IF thisAppInfo = Null THEN PackageInfo(s)
                   ELSE GrantStep([s EXCEPT !.appInfo = thisAppInfo])]
  /\ UNCHANGED <<thisCaps, thisAppInfo, recentAppInfo, failedBringUp>>

\* `adb install` completed.
InstallDone(r, res) ==
  /\ Waiting(r, "install")
  /\ LET s == Completed(slot[r], res)
     IN slot' = [slot EXCEPT ![r] =
                   IF res # "ok" THEN Catch(Rejected(s, res), res) ELSE PackageInfo(s)]
  /\ UNCHANGED <<thisCaps, thisAppInfo, recentAppInfo, failedBringUp>>

\* PackageInfoDone that stores the info only while the stored capabilities
\* are those of its own request.
PackageInfoDoneGuarded(r, res, permissions) ==
  /\ Waiting(r, "packageInfo")
  /\ LET s == Completed(slot[r], res)
     IN IF res # "ok"
        THEN /\ slot' = [slot EXCEPT ![r] = Catch(Rejected(s, res), res)]
             /\ UNCHANGED <<thisAppInfo, recentAppInfo>>
        ELSE LET info == [requestedPermissions |-> permissions]
             IN /\ thisAppInfo' = IF thisCaps = s.caps THEN info ELSE thisAppInfo
                /\ recentAppInfo' = info
                /\ slot' = [slot EXCEPT ![r] = GrantStep([s EXCEPT !.appInfo = info])]
  /\ UNCHANGED <<thisCaps, failedBringUp>>

\* `dumpsys package` completed: the info is stored, then the grant step.
PackageInfoDone(r, res, permissions) ==
  /\ Waiting(r, "packageInfo")
  /\ LET s == Completed(slot[r], res)
     IN IF res # "ok"
        THEN /\ slot' = [slot EXCEPT ![r] = Catch(Rejected(s, res), res)]
             /\ UNCHANGED <<thisAppInfo, recentAppInfo>>
        ELSE LET info == [requestedPermissions |-> permissions]
             IN /\ thisAppInfo' = info
                /\ recentAppInfo' = info
                /\ slot' = [slot EXCEPT ![r] = GrantStep([s EXCEPT !.appInfo = info])]
  /\ UNCHANGED <<thisCaps, failedBringUp>>

\* GrantPermissionDone that goes on when the first grant has succeeded.
GrantPermissionDoneEager(r, i, res) ==
  /\ i \in slot[r].pending
  /\ LET left == [slot[r] EXCEPT !.pending = @ \ {i}]
         s == Completed(left, res)
     IN slot' = [slot EXCEPT ![r] =
                   IF s.pc # "grantPermissions" THEN left
                   ELSE IF res # "ok" THEN Catch(Rejected(s, res), res)
                   ELSE StartApp(s)]
  /\ UNCHANGED <<thisCaps, thisAppInfo, recentAppInfo, failedBringUp>>

\* One `pm grant` completed.  Promise.all rejects on the first failure and
\* resolves when the last command has succeeded; what completes after a
\* rejection changes nothing.
GrantPermissionDone(r, i, res) ==
  /\ i \in slot[r].pending
  /\ LET left == [slot[r] EXCEPT !.pending = @ \ {i}]
         s == Completed(left, res)
     IN slot' = [slot EXCEPT ![r] =
                   IF s.pc # "grantPermissions" THEN left
                   ELSE IF res # "ok" THEN Catch(Rejected(s, res), res)
                   ELSE IF s.pending = {} THEN StartApp(s)
                   ELSE s]
  /\ UNCHANGED <<thisCaps, thisAppInfo, recentAppInfo, failedBringUp>>

\* StartAppDone that goes on with the stored capabilities, not the handler's.
StartAppDoneStoredCaps(r, res) ==
  /\ Waiting(r, "startApp")
  /\ LET s == Completed(slot[r], res)
     IN slot' = [slot EXCEPT ![r] =
                   IF res # "ok" THEN Catch(Rejected(s, res), res)
                   ELSE IF Route(s.req) = "createSession"
                     THEN TcpPortForward([s EXCEPT !.caps = thisCaps])
                   ELSE WaitForAppServerStart(s, 0)]
  /\ UNCHANGED <<thisCaps, thisAppInfo, recentAppInfo, failedBringUp>>

\* The launch completed: bring-up forwards the port, reset waits for the server.
StartAppDone(r, res) ==
  /\ Waiting(r, "startApp")
  /\ LET s == Completed(slot[r], res)
     IN slot' = [slot EXCEPT ![r] =
                   IF res # "ok" THEN Catch(Rejected(s, res), res)
                   ELSE IF Route(s.req) = "createSession" THEN TcpPortForward(s)
                   ELSE WaitForAppServerStart(s, 0)]
  /\ UNCHANGED <<thisCaps, thisAppInfo, recentAppInfo, failedBringUp>>

\* `adb forward` completed.
TcpPortForwardDone(r, res) ==
  /\ Waiting(r, "tcpPortForward")
  /\ LET s == Completed(slot[r], res)
     IN slot' = [slot EXCEPT ![r] =
                   IF res # "ok" THEN Catch(Rejected(s, res), res)
                   ELSE WaitForAppServerStart(s, 0)]
  /\ UNCHANGED <<thisCaps, thisAppInfo, recentAppInfo, failedBringUp>>

\* delay(200) has passed: GET /ping.
DelayDone(r) ==
  /\ Waiting(r, "delay")
  /\ slot' = [slot EXCEPT ![r].pc = "ping",
                          ![r].appServerRequests = Append(@, PingRequest)]
  /\ UNCHANGED <<thisCaps, thisAppInfo, recentAppInfo, failedBringUp>>

\* GET /ping completed.
PingDone(r, res) ==
  /\ Waiting(r, "ping")
  /\ slot' = [slot EXCEPT ![r] = AfterPing([slot[r] EXCEPT !.probe = res], res)]
  /\ UNCHANGED <<thisCaps, thisAppInfo, recentAppInfo, failedBringUp>>

\* POST /wd/hub/session/:id/appium/app/reset.  resetApp reads the stored
\* capabilities and app info, builds the facade and clears the app.
ResetApp(r, q) ==
  /\ Waiting(r, "idle")
  /\ Route(q) = "resetApp"
  /\ LET s == [IdleSlot EXCEPT !.req = q, !.caps = thisCaps, !.appInfo = thisAppInfo]
     IN slot' = [slot EXCEPT ![r] =
                   IF ~IsObject(thisCaps) THEN HandleError(s, TypeError)
                   ELSE ClearApp(s)]
  /\ UNCHANGED <<thisCaps, thisAppInfo, recentAppInfo, failedBringUp>>

\* `pm clear` completed: the grant step, with the app info resetApp read.
ClearAppDone(r, res) ==
  /\ Waiting(r, "clearApp")
  /\ LET s == Completed(slot[r], res)
     IN slot' = [slot EXCEPT ![r] =
                   IF res # "ok" THEN Catch(Rejected(s, res), res) ELSE GrantStep(s)]
  /\ UNCHANGED <<thisCaps, thisAppInfo, recentAppInfo, failedBringUp>>

\* Any other request goes straight to the proxy.
ForwardRequest(r, q) ==
  /\ Waiting(r, "idle")
  /\ Route(q) = "forwardRequestToAppServer"
  /\ slot' = [slot EXCEPT ![r] = ForwardRequestToAppServer([IdleSlot EXCEPT !.req = q])]
  /\ UNCHANGED <<thisCaps, thisAppInfo, recentAppInfo, failedBringUp>>

\* The automation server answered the forwarded request, or could not be
\* reached: an answer is relayed, whatever its status.
ForwardDone(r, res) ==
  /\ Waiting(r, "forwardRequestToAppServer")
  /\ slot' = [slot EXCEPT ![r] = Relay([slot[r] EXCEPT !.answer = res], res)]
  /\ UNCHANGED <<thisCaps, thisAppInfo, recentAppInfo, failedBringUp>>

\* The client has its response and nothing of the request is outstanding:
\* the slot is free again.
Retire(r) ==
  /\ Waiting(r, "done")
  /\ slot[r].pending = {}
  /\ slot' = [slot EXCEPT ![r] = IdleSlot]
  /\ failedBringUp' =
       (failedBringUp \/ (Route(slot[r].req) = "createSession"
                            /\ slot[r].req \notin Range(slot[r].appServerRequests)))
  /\ UNCHANGED <<thisCaps, thisAppInfo, recentAppInfo>>

\* No request is being handled.
Quiet == \A r \in Slots : slot[r].pc = "idle"

\* The client sends one request at a time; it takes the first slot.
Arrive ==
  /\ Quiet
  /\ \E q \in Requests :
       \/ CreateSession(1, q)
       \/ ResetApp(1, q)
       \/ ForwardRequest(1, q)

Complete ==
  \E r \in Slots :
    \/ \E res \in DevicesResults : ListRunningDevicesDone(r, res)
    \/ \E res \in ListPackagesResults : ListPackagesDone(r, res)
    \/ SetTimeoutDone(r)
    \/ \E res \in ExecResults : UninstallDone(r, res)
    \/ \E res \in ExecResults : InstallDone(r, res)
    \/ \E res \in ExecResults, p \in PermissionLists : PackageInfoDone(r, res, p)
    \/ \E res \in ExecResults, i \in 1..MaxPerms : GrantPermissionDone(r, i, res)
    \/ \E res \in ExecResults : StartAppDone(r, res)
    \/ \E res \in ExecResults : TcpPortForwardDone(r, res)
    \/ DelayDone(r)
    \/ \E res \in PingResults : PingDone(r, res)
    \/ \E res \in ExecResults : ClearAppDone(r, res)
    \/ \E res \in AppServerResults : ForwardDone(r, res)
    \/ Retire(r)

Next == Arrive \/ Complete

Spec == Init /\ [][Next]_vars

(***************************************************************************)
(* Overlapping requests.  Express starts a handler for each request as it  *)
(* arrives, whatever the handlers of earlier requests are waiting for, and *)
(* the completions of their calls interleave in any order.  Up to          *)
(* MaxOverlap requests arrive, two clients' start-session requests or      *)
(* reset-app requests; a poll meets at most MaxRetries failures.           *)
(***************************************************************************)
OverlapCaps ==
  {c \in CapsSet : \/ c.deviceName = "emulator-5554" /\ c.platformVersion = V60
                   \/ c.deviceName = "emulator-5556" /\ c.platformVersion = V100}

OverlapRequests ==
  {q \in SessionRequests : DesiredCapabilities(q) \in OverlapCaps} \cup ResetRequests

\* The packages on the devices request one permission each.
OverlapPermissionLists == {p \in PermissionLists : Len(p) = 1}

\* The next request takes the first slot that has had none.
NextSlot(r) ==
  /\ r \in Slots /\ r <= MaxOverlap
  /\ \A o \in Slots : o < r => slot[o].pc # "idle"

ArriveOverlapping ==
  \E r \in Slots, q \in OverlapRequests :
    /\ NextSlot(r)
    /\ \/ CreateSession(r, q)
       \/ ResetApp(r, q)

CompleteOverlapping ==
  \E r \in Slots :
    \/ \E res \in DevicesResults : ListRunningDevicesDone(r, res)
    \/ \E res \in ListPackagesResults :
         /\ res # "packages" => slot[r].attempt < MaxRetries
         /\ ListPackagesDone(r, res)
    \/ SetTimeoutDone(r)
    \/ \E res \in ExecResults : UninstallDone(r, res)
    \/ \E res \in ExecResults : InstallDone(r, res)
    \/ \E res \in ExecResults, p \in OverlapPermissionLists : PackageInfoDone(r, res, p)
    \/ \E res \in ExecResults, i \in 1..MaxPerms : GrantPermissionDone(r, i, res)
    \/ \E res \in ExecResults : StartAppDone(r, res)
    \/ \E res \in ExecResults : TcpPortForwardDone(r, res)
    \/ DelayDone(r)
    \/ \E res \in PingResults :
         /\ res # "ok" => slot[r].count < MaxRetries
         /\ PingDone(r, res)
    \/ \E res \in ExecResults : ClearAppDone(r, res)
    \/ \E res \in AppServerResults : ForwardDone(r, res)

OverlapNext == ArriveOverlapping \/ CompleteOverlapping

OverlapSpec == Init /\ [][OverlapNext]_vars

\* Every adb command, timer and request that is outstanding completes in the
\* end: exec, setTimeout, delay and the HTTP client all call back.
FairSpec == Spec /\ WF_vars(Complete)


(***************************************************************************)
(* Vocabulary of the properties.                                           *)
(***************************************************************************)
IsBringUp(s) == s.pc # "idle" /\ Route(s.req) = "createSession"
IsReset(s) == s.pc # "idle" /\ Route(s.req) = "resetApp"

\* The positions of the adb calls of a slot that run the command cmd.
CallsOf(s, cmd) == {i \in 1..Len(s.adbCalls) : s.adbCalls[i].cmd = cmd}
Has(s, cmd) == CallsOf(s, cmd) # {}

\* The permissions the slot has issued a `pm grant` for.
Granted(s) == {s.adbCalls[i].args[2] : i \in CallsOf(s, "shell pm grant")}

\* The number of health probes the slot has sent.
Pings(s) ==
  Cardinality({i \in 1..Len(s.appServerRequests) : s.appServerRequests[i] = PingRequest})

\* The positions at which the slot's own request went to the automation server.
Forwards(s) ==
  {i \in 1..Len(s.appServerRequests) : s.appServerRequests[i] = s.req}

\* The handler has come as far as the health poll.
AtHealthPoll(s) == s.pc = "delay" \/ s.appServerRequests # <<>>

\* The client got the automation server's answer, not an error of the server.
Relayed(s) == s.pc = "done" /\ "error" \notin DOMAIN s.response.body

HasInfo(s) == "requestedPermissions" \in DOMAIN s.appInfo

\* The positions of the dangerous entries of a permission list.
DangerousAt(permissions) ==
  {i \in 1..Len(permissions) : permissions[i] \in DANGEROUS_PERMISSIONS}

(***************************************************************************)
(* C1.  A bring-up whose device is already running, on platform "6.0",     *)
(* for an app that requests two dangerous permissions, all commands        *)
(* succeeding, issues exactly: devices, uninstall <pkg>, install <apk>,    *)
(* dumpsys package <pkg>, one pm grant per dangerous permission, the       *)
(* monkey launch and forward tcp:<local> tcp:<remote>, in this order, and  *)
(* nothing else.                                                           *)
(***************************************************************************)
C1_Case(s) ==
  /\ IsBringUp(s)
  /\ s.deviceRunning = "yes"
  /\ s.caps.platformVersion = V60
  /\ HasInfo(s)
  /\ Cardinality(DangerousAt(s.appInfo.requestedPermissions)) = 2
  /\ Cardinality(Range(s.appInfo.requestedPermissions) \cap DANGEROUS_PERMISSIONS) = 2
  /\ AtHealthPoll(s)

C1_BringUpInvocations ==
  \A r \in Slots :
    LET s == slot[r]
        d == s.caps.deviceName
        pkg == s.caps.packageName
        call(cmd, args) == [deviceName |-> d, cmd |-> cmd, args |-> args]
    IN C1_Case(s) =>
         /\ Len(s.adbCalls) = 8
         /\ s.adbCalls[1] = call("devices", <<>>)
         /\ s.adbCalls[2] = call("uninstall", <<pkg>>)
         /\ s.adbCalls[3] = call("install", <<s.caps.app>>)
         /\ s.adbCalls[4] = call("shell dumpsys package", <<pkg>>)
         /\ {s.adbCalls[5], s.adbCalls[6]} =
              {call("shell pm grant", <<pkg, p>>) :
                 p \in Range(s.appInfo.requestedPermissions) \cap DANGEROUS_PERMISSIONS}
         /\ s.adbCalls[7] =
              call("shell monkey -p", <<pkg, "-c android.intent.category.LAUNCHER 1">>)
         /\ s.adbCalls[8] = call("forward", <<"tcp:6100", "tcp:7100">>)
         /\ s.spawnCalls = <<>>

C1_Witness ==
  \E r \in Slots : C1_Case(slot[r]) /\ Relayed(slot[r])

(***************************************************************************)
(* C2.  A bring-up whose device is in the list of running devices never    *)
(* spawns an emulator and never queries the package list, whatever         *)
(* happens in its later steps.                                             *)
(***************************************************************************)
C2_NoSpawnWhenRunning ==
  \A r \in Slots :
    LET s == slot[r]
    IN s.deviceRunning = "yes" =>
         /\ s.spawnCalls = <<>>
         /\ ~Has(s, "shell pm list packages")
         /\ s.pc \notin {"listPackages", "setTimeout"}
         /\ s.attempt = 0

C2_Witness ==
  \E r \in Slots :
    /\ slot[r].deviceRunning = "yes"
    /\ slot[r].pc = "done"
    /\ slot[r].failure # "none"
    /\ Has(slot[r], "install")

(***************************************************************************)
(* C3.  A bring-up whose device is not in the list of running devices      *)
(* spawns exactly one emulator, with the avdName of its capabilities, and  *)
(* issues uninstall and install only after the spawn and after a boot-poll *)
(* query that returned packages.                                           *)
(***************************************************************************)
C3_SpawnOnceThenInstall ==
  \A r \in Slots :
    LET s == slot[r]
    IN s.deviceRunning = "no" =>
         /\ s.spawnCalls = << <<"-avd", s.caps.avdName>> >>
         /\ \A i \in CallsOf(s, "uninstall") \cup CallsOf(s, "install") :
              \E j \in CallsOf(s, "shell pm list packages") : j < i
         /\ (Has(s, "uninstall") /\ ~AtHealthPoll(s)) => s.probe = "packages"
         /\ s.pc \in {"listPackages", "setTimeout"} => ~Has(s, "uninstall")

C3_Witness ==
  \E r \in Slots :
    /\ slot[r].deviceRunning = "no"
    /\ Has(slot[r], "install")
    /\ slot[r].caps.avdName = "other-avd"

(***************************************************************************)
(* C4.  In bring-up and in reset, once the grant step has run, the         *)
(* permissions a pm grant was issued for are exactly the requested         *)
(* permissions of the app info that are dangerous.                         *)
(***************************************************************************)
C4_GrantStepRan(s) ==
  /\ IsBringUp(s) \/ IsReset(s)
  /\ IsObject(s.caps)
  /\ NeedsGrant(s.caps.platformVersion)
  /\ HasInfo(s)
  /\ Has(s, "shell pm grant") \/ Has(s, "shell monkey -p")

C4_GrantsAreDangerousRequested ==
  \A r \in Slots :
    LET s == slot[r]
    IN /\ C4_GrantStepRan(s) =>
            Granted(s) = Range(s.appInfo.requestedPermissions) \cap DANGEROUS_PERMISSIONS
       /\ \A i \in CallsOf(s, "shell pm grant") :
            /\ C4_GrantStepRan(s)
            /\ s.adbCalls[i].args[1] = s.caps.packageName

C4_Witness ==
  \E r \in Slots :
    LET s == slot[r]
    IN /\ IsReset(s)
       /\ C4_GrantStepRan(s)
       /\ Granted(s) = {CAMERA}
       /\ INTERNET \in Range(s.appInfo.requestedPermissions)


(***************************************************************************)
(* C5.  A reset after a bring-up issues only `pm clear`, then (on          *)
(* platform >= "6.0") the grants for the dangerous permissions of the app  *)
(* info the most recent bring-up captured, then the launch, in that order; *)
(* it never issues devices, uninstall, install, dumpsys or forward and     *)
(* never spawns.                                                           *)
(***************************************************************************)
\* The permissions a reset is to grant: those of the most recent bring-up.
C5_GrantsDue(s) ==
  IF NeedsGrant(s.caps.platformVersion) /\ "requestedPermissions" \in DOMAIN recentAppInfo
  THEN Range(recentAppInfo.requestedPermissions) \cap DANGEROUS_PERMISSIONS
  ELSE {}

C5_ResetUsesRecentBringUp ==
  \A r \in Slots :
    LET s == slot[r]
    IN (IsReset(s) /\ IsObject(s.caps)) =>
         /\ \A i \in 1..Len(s.adbCalls) :
              s.adbCalls[i].cmd \in {"shell pm clear", "shell pm grant", "shell monkey -p"}
         /\ CallsOf(s, "shell pm clear") \subseteq {1}
         /\ \A i \in CallsOf(s, "shell pm grant"), j \in CallsOf(s, "shell monkey -p") :
              i < j
         /\ Granted(s) \subseteq C5_GrantsDue(s)
         /\ Has(s, "shell monkey -p") => Granted(s) = C5_GrantsDue(s)
         /\ s.spawnCalls = <<>>

\* What holds instead: the grants are those of the app info stored on the
\* server when the reset arrived, whichever bring-up stored it.
C5_ResetUsesStoredInfo ==
  \A r \in Slots :
    LET s == slot[r]
        due == IF NeedsGrant(s.caps.platformVersion) /\ HasInfo(s)
               THEN Range(s.appInfo.requestedPermissions) \cap DANGEROUS_PERMISSIONS
               ELSE {}
    IN (IsReset(s) /\ IsObject(s.caps)) =>
         /\ \A i \in 1..Len(s.adbCalls) :
              s.adbCalls[i].cmd \in {"shell pm clear", "shell pm grant", "shell monkey -p"}
         /\ CallsOf(s, "shell pm clear") \subseteq {1}
         /\ \A i \in CallsOf(s, "shell pm grant"), j \in CallsOf(s, "shell monkey -p") :
              i < j
         /\ Granted(s) \subseteq due
         /\ Has(s, "shell monkey -p") => Granted(s) = due
         /\ s.spawnCalls = <<>>

(***************************************************************************)
(* C6.  A start-session or reset-app request goes to the automation server *)
(* exactly once, and only after every step of its protocol has succeeded   *)
(* and a health probe of its own poll has succeeded: the successful ping   *)
(* comes right before the forwarded request, and in a bring-up the port    *)
(* forward comes before the first ping.                                    *)
(***************************************************************************)
\* The commands every step of the protocol issues.
C6_StepsOf(s) ==
  IF IsBringUp(s)
  THEN {"devices", "uninstall", "install", "shell dumpsys package", "shell monkey -p",
        "forward"}
  ELSE {"shell pm clear", "shell monkey -p"}

C6_ForwardedOnceAfterPing ==
  \A r \in Slots :
    LET s == slot[r]
        n == Len(s.appServerRequests)
    IN (IsBringUp(s) \/ IsReset(s)) =>
         /\ Cardinality(Forwards(s)) <= 1
         /\ \A i \in Forwards(s) :
              /\ i = n /\ i > 1
              /\ s.appServerRequests[i - 1] = PingRequest
              /\ s.probe = "ok"
              /\ s.failure = "none"
              /\ s.pending = {}
              /\ \A cmd \in C6_StepsOf(s) : Has(s, cmd)
         /\ \A i \in (1..n) \ Forwards(s) : s.appServerRequests[i] = PingRequest
         /\ (IsBringUp(s) /\ n > 0) =>
              s.adbCalls[Len(s.adbCalls)].cmd = "forward"
         /\ Relayed(s) => Cardinality(Forwards(s)) = 1

C6_Witness ==
  \E r \in Slots :
    /\ IsReset(slot[r])
    /\ Relayed(slot[r])
    /\ Pings(slot[r]) = 3
    /\ Forwards(slot[r]) = {4}

(***************************************************************************)
(* C7.  Once a step of bring-up or reset has failed (a command other than  *)
(* the uninstall, or a poll out of attempts), the client has a 500         *)
(* response with the error's message and stack, the request is not         *)
(* forwarded to the automation server, and the request issues nothing      *)
(* more: no later step, no retry.                                          *)
(***************************************************************************)
C7_Failed(s) ==
  /\ s.pc = "done"
  /\ s.response = [status |-> 500, body |-> [error |-> s.failure, stack |-> s.failure]]
  /\ Forwards(s) = {}

C7_FailureAborts ==
  [][\A r \in Slots :
       /\ slot'[r].failure # "none" => C7_Failed(slot'[r])
       /\ slot[r].failure # "none" =>
            \/ slot'[r] = IdleSlot
            \/ /\ slot'[r].adbCalls = slot[r].adbCalls
               /\ slot'[r].spawnCalls = slot[r].spawnCalls
               /\ slot'[r].appServerRequests = slot[r].appServerRequests
               /\ slot'[r].response = slot[r].response
               /\ slot'[r].pc = "done"]_vars

\* A grant fails while another grant of the same step is still running.
C7_Witness ==
  \E r \in Slots :
    /\ slot[r].failure = "Command failed"
    /\ Has(slot[r], "shell pm grant")
    /\ slot[r].pending # {}
    /\ C7_Failed(slot[r])

(***************************************************************************)
(* C8.  A reset-app request that arrives before any start-session request  *)
(* fails with an error of its own, not with the TypeError of reading a     *)
(* property of the absent capabilities, and issues no command.             *)
(***************************************************************************)
C8_ResetWithoutSession ==
  \A r \in Slots :
    LET s == slot[r]
    IN (IsReset(s) /\ s.caps = Null) =>
         /\ s.pc = "done"
         /\ s.response.status = 500
         /\ s.response.body.error # TypeError
         /\ s.adbCalls = <<>>

(***************************************************************************)
(* C9.  A health poll all of whose probes fail sends exactly 50 probes,    *)
(* never a 51st, and then rejects with the failure of the last probe.      *)
(***************************************************************************)
C9_PollStopsAtLimit ==
  \A r \in Slots :
    LET s == slot[r]
    IN /\ Pings(s) <= PingPollLimit
       /\ (s.pc = "done" /\ s.failure # "none" /\ Pings(s) > 0) =>
            /\ Pings(s) = PingPollLimit
            /\ s.response.body.error = s.probe

(***************************************************************************)
(* C10.  A health poll whose k-th probe is the first to succeed resolves   *)
(* at once, having sent exactly k probes: the request goes to the proxy    *)
(* and no probe is sent after the successful one.                          *)
(***************************************************************************)
C10_ResolvesOnFirstSuccess ==
  [][\A r \in Slots :
       LET s == slot[r]
           t == slot'[r]
       IN /\ (s.pc = "ping" /\ t # s /\ t.probe = "ok") =>
               /\ t.pc = "forwardRequestToAppServer"
               /\ t.failure = "none"
               /\ Pings(t) = s.count + 1
               /\ Forwards(t) = {s.count + 2}
          /\ (s.probe = "ok" /\ t # IdleSlot) => Pings(t) = Pings(s)]_vars

\* 49 failed probes, and the 50th has succeeded.
C10_Witness ==
  \E r \in Slots :
    /\ slot[r].pc = "forwardRequestToAppServer"
    /\ slot[r].probe = "ok"
    /\ Pings(slot[r]) = 50
    /\ slot[r].count = 49

(***************************************************************************)
(* C11.  A request that is not on one of the two control endpoints goes to *)
(* the automation server exactly once, with its method, path and body,     *)
(* and runs no step of bring-up or reset (no adb command, no spawn, no      *)
(* health probe), whether a session exists or not; the status and body the *)
(* automation server answers with are the response, unchanged.             *)
(***************************************************************************)
C11_OtherRequestsAreRelayed ==
  \A r \in Slots :
    LET s == slot[r]
    IN (s.pc # "idle" /\ Route(s.req) = "forwardRequestToAppServer") =>
         /\ s.appServerRequests = <<s.req>>
         /\ s.adbCalls = <<>> /\ s.spawnCalls = <<>>
         /\ s.attempt = 0 /\ s.count = 0 /\ s.pending = {}
         /\ s.pc \in {"forwardRequestToAppServer", "done"}
         /\ s.pc = "done" <=> s.answer # NoAnswer
         /\ s.answer.kind \in {"response", "errorResponse"} =>
              s.response = [status |-> s.answer.status, body |-> s.answer.body]

\* A request with a body is relayed before any session has been started.
C11_Witness ==
  \E r \in Slots :
    /\ thisCaps = Null
    /\ slot[r].answer.kind = "response"
    /\ slot[r].req.path = ElementsPath
    /\ slot[r].req.body = [using |-> "xpath"]
    /\ slot[r].response.status = 200

(***************************************************************************)
(* C12.  When a forwarded request comes back with an error answer of the   *)
(* automation server, the client gets that answer's status and body, not   *)
(* the server's own error response; only a forwarded request that fails    *)
(* without an answer ends in the 500 response with the error's message and *)
(* stack.                                                                  *)
(***************************************************************************)
C12_ErrorAnswersAreRelayed ==
  \A r \in Slots :
    LET s == slot[r]
    IN s.answer # NoAnswer =>
         /\ s.pc = "done"
         /\ s.answer.kind = "errorResponse" =>
              /\ s.response = [status |-> s.answer.status, body |-> s.answer.body]
              /\ "error" \notin DOMAIN s.response.body
         /\ s.answer.kind = "transport" <=> "error" \in DOMAIN s.response.body
         /\ s.answer.kind = "transport" =>
              s.response = [status |-> 500,
                            body |-> [error |-> s.answer.body.sessionId,
                                      stack |-> s.answer.body.sessionId]]

\* The error answer to the forwarded start-session request of a bring-up.
C12_Witness ==
  \E r \in Slots :
    /\ IsBringUp(slot[r])
    /\ slot[r].answer.kind = "errorResponse"
    /\ slot[r].response.status = 404

(***************************************************************************)
(* C13.  A start-session request that arrives after a bring-up has failed  *)
(* is taken up like any other: it runs with its own capabilities, skips no *)
(* step of the protocol, and fails only if one of its own steps fails or   *)
(* its own capabilities are unusable; if all its steps succeed it goes to  *)
(* the proxy and the client gets the automation server's answer.           *)
(***************************************************************************)
\* The capabilities of the request can be used: an object that names a device.
C13_Usable(s) == IsObject(s.caps) /\ s.caps.deviceName # Missing

C13_FreshBringUpAfterFailure ==
  \A r \in Slots :
    LET s == slot[r]
    IN (failedBringUp /\ IsBringUp(s)) =>
         /\ s.caps = DesiredCapabilities(s.req)
         /\ thisCaps = s.caps
         /\ C13_Usable(s) => Has(s, "devices")
         /\ Has(s, "uninstall") =>
              \/ s.deviceRunning = "yes"
              \/ s.spawnCalls # <<>> /\ Has(s, "shell pm list packages")
         /\ Has(s, "install") => Has(s, "uninstall")
         /\ Has(s, "shell dumpsys package") => Has(s, "install")
         /\ HasInfo(s) <=> (Has(s, "shell dumpsys package") /\ s.pc # "packageInfo"
                              /\ ~(s.pc = "done" /\ ~Has(s, "shell pm grant")
                                     /\ ~Has(s, "shell monkey -p")))
         /\ HasInfo(s) => thisAppInfo = s.appInfo
         /\ Has(s, "shell monkey -p") =>
              /\ HasInfo(s)
              /\ Granted(s) = IF NeedsGrant(s.caps.platformVersion)
                              THEN Range(s.appInfo.requestedPermissions)
                                     \cap DANGEROUS_PERMISSIONS
                              ELSE {}
         /\ Has(s, "forward") => Has(s, "shell monkey -p")
         /\ AtHealthPoll(s) => Has(s, "forward")
         /\ (s.pc = "done" /\ s.failure = "none" /\ C13_Usable(s)) =>
              /\ Cardinality(Forwards(s)) = 1
              /\ s.answer # NoAnswer
              /\ s.answer.kind # "transport" => Relayed(s)

\* After a failed bring-up, a bring-up on a device that had to be started
\* grants a permission and is answered by the automation server.
C13_Witness ==
  \E r \in Slots :
    /\ failedBringUp
    /\ IsBringUp(slot[r])
    /\ slot[r].answer.kind = "response"
    /\ Relayed(slot[r])
    /\ slot[r].spawnCalls # <<>>
    /\ Granted(slot[r]) # {}

(***************************************************************************)
(* C14.  The boot poll issues at most 60 package-list queries; when every  *)
(* query fails or returns an empty list it stops after exactly 60 and      *)
(* rejects with the last failure (an error without a message when the list *)
(* was empty); an empty list is never taken for a booted device.           *)
(***************************************************************************)
\* The queries the boot poll of the slot has issued: attempts 0..attempt.
C14_Queries(s) == s.attempt + 1

C14_BootPollStopsAtLimit ==
  \A r \in Slots :
    LET s == slot[r]
        polling == s.pc \in {"listPackages", "setTimeout"}
        gaveUp == /\ s.pc = "done" /\ s.failure # "none"
                  /\ s.adbCalls # <<>>
                  /\ s.adbCalls[Len(s.adbCalls)].cmd = "shell pm list packages"
    IN /\ (polling \/ gaveUp) => C14_Queries(s) <= BootPollLimit
       /\ gaveUp =>
            /\ C14_Queries(s) = BootPollLimit
            /\ s.response.body.error = IF s.probe = "empty" THEN NotReady ELSE s.probe
       /\ s.probe = "empty" => (polling \/ gaveUp)

(***************************************************************************)
(* C15.  installApp issues the uninstall first and the install second,     *)
(* the install once the uninstall has completed, whether the uninstall     *)
(* succeeded or failed; installApp fails exactly when the install fails.   *)
(***************************************************************************)
C15_UninstallThenInstall ==
  [][\A r \in Slots :
       LET s == slot[r]
           t == slot'[r]
           n == Len(s.adbCalls)
       IN /\ (s.pc = "uninstall" /\ t # s) =>
               /\ s.adbCalls[n] = Adb(s, "uninstall", <<s.caps.packageName>>)
               /\ t.adbCalls = Append(s.adbCalls, Adb(s, "install", <<s.caps.app>>))
               /\ t.pc = "install"
               /\ t.failure = "none"
               /\ t.result \in ExecResults
          /\ (s.pc = "install" /\ t # s) =>
               /\ t.adbCalls[n].cmd = "install"
               /\ t.result \in ExecResults
               /\ t.failure # "none" <=> t.result # "ok"
               /\ t.result # "ok" => (C7_Failed(t) /\ t.adbCalls = s.adbCalls)
               /\ t.result = "ok" => t.pc = "packageInfo"
          /\ \A i \in CallsOf(t, "install") :
               /\ i > 1 /\ t.adbCalls[i - 1].cmd = "uninstall"
               /\ s.pc = "uninstall" \/ i \in CallsOf(s, "install")]_vars

\* The uninstall has failed and the install is running.
C15_Witness ==
  \E r \in Slots :
    /\ slot[r].pc = "install"
    /\ slot[r].result = "Command failed"
    /\ slot[r].failure = "none"

(***************************************************************************)
(* C16.  The grant step runs exactly when the platform version, compared   *)
(* as a string, is at least "6.0": a bring-up or reset on "6.0" or "9.0"   *)
(* has issued a grant for every dangerous requested permission before it   *)
(* launches the app, and one on "5.1", on "10.0" or without a platform     *)
(* version issues no grant at all.                                         *)
(***************************************************************************)
C16_GrantsByVersionString ==
  \A r \in Slots :
    LET s == slot[r]
        v == s.caps.platformVersion
    IN ((IsBringUp(s) \/ IsReset(s)) /\ IsObject(s.caps)) =>
         /\ v \in {V51, V100, VUndefined} =>
              /\ ~Has(s, "shell pm grant")
              /\ s.pc # "grantPermissions"
              /\ s.pending = {}
         /\ (v \in {V60, V90} /\ Has(s, "shell monkey -p")) =>
              /\ HasInfo(s)
              /\ Granted(s) =
                   Range(s.appInfo.requestedPermissions) \cap DANGEROUS_PERMISSIONS
              /\ \A i \in CallsOf(s, "shell pm grant"), j \in CallsOf(s, "shell monkey -p") :
                   i < j
         /\ v \in {V51, V60, V90, V100, VUndefined}

\* On "10.0" the app is launched, with a dangerous permission requested and
\* none granted.
C16_Witness ==
  \E r \in Slots :
    LET s == slot[r]
    IN /\ IsBringUp(s)
       /\ Has(s, "shell monkey -p")
       /\ s.caps.platformVersion = V100
       /\ CAMERA \in Range(s.appInfo.requestedPermissions)
       /\ Granted(s) = {}

(***************************************************************************)
(* C17.  The stored session is replaced as a whole: in every state, while  *)
(* a bring-up is running and after one has failed too, the stored app info *)
(* is the one read by the start-session request that stored the            *)
(* capabilities, so that no reset runs with the capabilities of one        *)
(* bring-up and the app info of another.                                   *)
(***************************************************************************)
C17_SessionFromOneRequest ==
  /\ "requestedPermissions" \in DOMAIN thisAppInfo => thisAppInfo = recentAppInfo
  /\ \A r \in Slots :
       LET s == slot[r]
       IN (IsReset(s) /\ HasInfo(s)) => (s.caps = thisCaps /\ s.appInfo = recentAppInfo)

(***************************************************************************)
(* C18.  The app info is never used before a bring-up has read it: a reset *)
(* that found no stored app info issues no adb command, and none of its    *)
(* steps reads the requested permissions of the absent app info (which     *)
(* would end it in a TypeError).                                           *)
(***************************************************************************)
C18_NoResetWithoutAppInfo ==
  \A r \in Slots :
    LET s == slot[r]
    IN (IsReset(s) /\ ~HasInfo(s)) =>
         /\ s.adbCalls = <<>>
         /\ ~(/\ Has(s, "shell pm clear")
              /\ s.pc = "done"
              /\ s.failure = "none"
              /\ s.response.body = [error |-> TypeError, stack |-> TypeError])

(***************************************************************************)
(* C19.  Within one bring-up or reset the steps are strictly sequential:   *)
(* at most one adb command or health probe is outstanding at a time, and   *)
(* one is issued only when the one before it has completed.  The grant     *)
(* step is the exception: its grants are all issued together, before any   *)
(* of them completes; the step is complete when all of them have           *)
(* succeeded, and fails with the first of them that fails.                 *)
(***************************************************************************)
\* The adb commands and health probes of a slot that have not completed.
C19_Outstanding(s) ==
  Cardinality(s.pending) +
    (IF s.pc \in {"listRunningDevices", "listPackages", "uninstall", "install",
                  "packageInfo", "startApp", "tcpPortForward", "clearApp", "ping"}
     THEN 1 ELSE 0)

\* The adb commands and health probes issued in the step from s to t; a
\* repeated query of the boot poll shows as a higher attempt.
C19_Issued(s, t) ==
  (Len(t.adbCalls) - Len(s.adbCalls)) + (Pings(t) - Pings(s))
    + (IF t.attempt > s.attempt THEN 1 ELSE 0)

C19_StepsAreSequential ==
  [][\A r \in Slots :
       LET s == slot[r]
           t == slot'[r]
           new == C19_Issued(s, t)
           grants == CallsOf(t, "shell pm grant")
       IN ((IsBringUp(t) \/ IsReset(t)) /\ t # s) =>
            /\ C19_Outstanding(t) <= 1 \/ t.pc \in {"grantPermissions", "done"}
            /\ t.pending # {} => t.pc \in {"grantPermissions", "done"}
            /\ new >= 0
            /\ new > 0 =>
                 /\ C19_Outstanding(s) <= 1
                 /\ C19_Outstanding(t) = new
                 /\ new > 1 => /\ ~Has(s, "shell pm grant")
                               /\ Cardinality(grants) = new
                               /\ t.pending = 1..new
                               /\ t.pc = "grantPermissions"
            /\ (s.pc = "grantPermissions" /\ t.pc = "grantPermissions") =>
                 (new = 0 /\ t.result = "ok" /\ t.pending # {})
            /\ (s.pc = "grantPermissions" /\ t.pc = "startApp") =>
                 (t.pending = {} /\ t.result = "ok" /\ t.failure = "none")
            /\ (s.pc = "grantPermissions" /\ t.pc = "done") =>
                 (t.failure = "Command failed" /\ C7_Failed(t) /\ new = 0)
            /\ s.pc = "grantPermissions" =>
                 t.pc \in {"grantPermissions", "startApp", "done"}]_vars

\* Two grants are outstanding at once.
C19_Witness ==
  \E r \in Slots :
    /\ slot[r].pc = "grantPermissions"
    /\ C19_Outstanding(slot[r]) = 2
    /\ IsReset(slot[r])

(***************************************************************************)
(* C20.  Provided every outstanding command, probe and timer completes in  *)
(* the end, every bring-up and every reset that has started ends: its      *)
(* request goes to the proxy, or the client gets the error response, even  *)
(* when every probe of a poll fails.                                       *)
(***************************************************************************)
C20_Ended(s) ==
  \/ s.pc = "forwardRequestToAppServer"
  \/ s.pc = "done"

C20_EveryRequestEnds ==
  \A r \in Slots :
    (IsBringUp(slot[r]) \/ IsReset(slot[r])) ~> C20_Ended(slot[r])

\* A bring-up that had to start its device has ended with the error
\* response after every probe of its health poll was refused.
C20_Witness ==
  \E r \in Slots :
    /\ IsBringUp(slot[r])
    /\ slot[r].pc = "done"
    /\ slot[r].spawnCalls # <<>>
    /\ slot[r].count = PingPollLimit
    /\ slot[r].failure = "ECONNREFUSED"

(***************************************************************************)
(* C23.  Every start-session and reset-app request that has finished had   *)
(* exactly one outcome: it went to the proxy or it went to the error       *)
(* handler (the 500 response), never both and never twice.                 *)
(***************************************************************************)
\* The client got the error handler's response.
C23_ErrorResponse(s) == s.pc = "done" /\ "error" \in DOMAIN s.response.body

C23_OneOutcome ==
  \A r \in Slots :
    LET s == slot[r]
    IN ((IsBringUp(s) \/ IsReset(s)) /\ s.pc = "done") =>
         /\ Cardinality(Forwards(s)) <= 1
         /\ (Forwards(s) # {}) # C23_ErrorResponse(s)

(***************************************************************************)
(* C23, as it holds.  The handler of a start-session or reset-app request  *)
(* ends in exactly one way, once: it passes the request to the proxy       *)
(* (next()), or it passes its error to the error handler (next(err), or an *)
(* exception thrown before the chain starts), which answers 500.  A        *)
(* request that went to the proxy is answered once: with the automation    *)
(* server's answer, or by the error handler when the forwarded request     *)
(* failed without an answer.  No response is replaced by another.          *)
(***************************************************************************)
C23_OneHandlerOutcome ==
  [][\A r \in Slots :
       LET s == slot[r]
           t == slot'[r]
       IN (IsBringUp(t) \/ IsReset(t)) =>
            /\ Cardinality(Forwards(t)) <= 1
            /\ t.response # NoResponse <=> t.pc = "done"
            /\ t.pc = "done" =>
                 \/ /\ Forwards(t) = {}
                    /\ t.answer = NoAnswer
                    /\ C23_ErrorResponse(t)
                 \/ /\ Forwards(t) # {}
                    /\ t.answer # NoAnswer
                    /\ C23_ErrorResponse(t) <=> t.answer.kind = "transport"
            /\ s.pc \in {"forwardRequestToAppServer", "done"} =>
                 t.appServerRequests = s.appServerRequests
            /\ s.pc = "done" => (t.pc = "done" /\ t.response = s.response)]_vars

\* A reset that threw before its chain started: the error handler answered,
\* nothing was forwarded.
C23_Witness ==
  \E r \in Slots :
    /\ IsReset(slot[r])
    /\ slot[r].caps = Null
    /\ C23_ErrorResponse(slot[r])
    /\ slot[r].response.body.error = TypeError
    /\ slot[r].appServerRequests = <<>>

(***************************************************************************)
(* C21.  Overlapping start-session requests are not kept apart: a          *)
(* start-session request stores its capabilities on arrival, whatever      *)
(* else is running, and a bring-up stores its app info when its dumpsys    *)
(* completes, whoever's capabilities are stored by then.  So two           *)
(* overlapping bring-ups with different capabilities can both succeed and  *)
(* leave the capabilities of one and the app info of the other.            *)
(***************************************************************************)
C21_UnguardedSessionWrites ==
  [][/\ \A r \in Slots :
          LET s == slot[r]
              t == slot'[r]
          IN /\ (s.pc = "idle" /\ IsBringUp(t)) =>
                  /\ thisCaps' = DesiredCapabilities(t.req)
                  /\ thisAppInfo' = thisAppInfo
             /\ (s.pc = "packageInfo" /\ HasInfo(t)) =>
                  /\ thisAppInfo' = t.appInfo
                  /\ thisCaps' = thisCaps
     /\ thisCaps' # thisCaps =>
          \E r \in Slots : slot[r].pc = "idle" /\ IsBringUp(slot'[r])
     /\ thisAppInfo' # thisAppInfo =>
          \E r \in Slots : slot[r].pc = "packageInfo" /\ HasInfo(slot'[r])]_vars

\* Both bring-ups have been answered by the automation server; the stored
\* capabilities are the second's, the stored app info is the first's.
C21_Witness ==
  LET a == slot[1]
      b == slot[2]
  IN /\ IsBringUp(a) /\ IsBringUp(b)
     /\ Relayed(a) /\ Relayed(b)
     /\ a.answer.kind = "response" /\ b.answer.kind = "response"
     /\ a.caps # b.caps
     /\ a.appInfo # b.appInfo
     /\ thisCaps = b.caps
     /\ thisAppInfo = a.appInfo

(***************************************************************************)
(* C22.  Whatever requests overlap with it and overwrite the stored        *)
(* session, every command a bring-up issues has the parameters of its own  *)
(* request and of its own dumpsys result: the device name, the avd it      *)
(* spawns, the package, the apk, the version that decides on the grant     *)
(* step, and the permissions it grants.                                    *)
(***************************************************************************)
C22_OwnParameters ==
  \A r \in Slots :
    LET s == slot[r]
        own == DesiredCapabilities(s.req)
        pkg == own.packageName
        args(cmd) ==
          CASE cmd = "uninstall" -> {<<pkg>>}
            [] cmd = "install" -> {<<own.app>>}
            [] cmd = "shell dumpsys package" -> {<<pkg>>}
            [] cmd = "shell pm grant" ->
                 IF NeedsGrant(own.platformVersion) /\ HasInfo(s)
                 THEN {<<pkg, p>> : p \in Range(s.appInfo.requestedPermissions)
                                            \cap DANGEROUS_PERMISSIONS}
                 ELSE {}
            [] cmd = "shell monkey -p" ->
                 {<<pkg, "-c android.intent.category.LAUNCHER 1">>}
            [] cmd = "forward" -> {<<localAppServerPort, appServerPort>>}
            [] cmd \in {"devices", "shell pm list packages"} -> {<<>>}
            [] OTHER -> {}
    IN (IsBringUp(s) /\ IsObject(own)) =>
         /\ s.caps = own
         /\ \A i \in 1..Len(s.adbCalls) :
              /\ s.adbCalls[i].deviceName = own.deviceName
              /\ s.adbCalls[i].args \in args(s.adbCalls[i].cmd)
         /\ \A i \in 1..Len(s.spawnCalls) : s.spawnCalls[i] = <<"-avd", own.avdName>>
         /\ (Has(s, "shell monkey -p") /\ NeedsGrant(own.platformVersion)) =>
              Granted(s) = Range(s.appInfo.requestedPermissions) \cap DANGEROUS_PERMISSIONS

\* The first bring-up has granted its own permission and forwarded the port
\* on its own device, while the stored capabilities and app info are those
\* of a second bring-up.
C22_Witness ==
  LET a == slot[1]
      b == slot[2]
  IN /\ IsBringUp(a) /\ IsBringUp(b)
     /\ Has(a, "shell pm grant") /\ Has(a, "forward")
     /\ HasInfo(b)
     /\ thisCaps = b.caps /\ thisCaps # a.caps
     /\ thisAppInfo = b.appInfo /\ thisAppInfo # a.appInfo

====
